---- MODULE Spec2Model ----
(***************************************************************************)
(* Document ingestion pipeline of TutUni (backend/app/services):           *)
(* BackgroundProcessor (queue, dispatch loop, per-document jobs,           *)
(* reprocess), the Document row it updates, and the VectorService          *)
(* collection it writes.                                                   *)
(*                                                                         *)
(* Atomicity follows asyncio: a coroutine runs without interruption from   *)
(* one await that really suspends to the next.  Each action below is one   *)
(* such block: the effect of the awaited call (a commit writes the         *)
(* attributes assigned since the previous commit) followed by the          *)
(* synchronous code up to the next suspension.  VectorService methods,     *)
(* _extract_text, _chunk_text and _store_embeddings never suspend.         *)
(***************************************************************************)
EXTENDS Integers, Sequences, FiniteSets, TLC

\* ---- bounds of the model -------------------------------------------------
NumDocs == 1
MaxQueue == 1
MaxRuns == 2
MaxLoops == 1

\* ---- identifiers ---------------------------------------------------------
Docs == 1..NumDocs
\* an id that has no row in the documents table
MissingDoc == NumDocs + 1
DocIds == Docs \cup {MissingDoc}
TaskIds == 1..MaxRuns
NoTask == 0
NULL == "NULL"

\* Document.project_id: two documents per project
ProjectOf(d) == (d + 1) \div 2
Projects == {ProjectOf(d) : d \in Docs}

\* DocumentStatus values the pipeline uses (UPLOADING is never assigned)
DocumentStatus == {"UPLOADED", "PROCESSING", "PROCESSED", "ANALYZED", "ERROR"}

\* ---- texts the extraction collaborator can return --------------------------
\* "short" is a text of fewer than 100 characters, for which the chunker
\* returns no chunk; "one" and "two" are longer texts that it cuts into one
\* and two chunks.
Texts == {"short", "one", "two"}

\* AIService.analyze_document rejects a text of fewer than 100 characters
\* before it suspends
Analyzable(text) == text \in {"one", "two"}

\* len(text_chunker.chunk_text(text, ...)) for the texts above
NumChunks(text) == CASE text = "one" -> 1
                     [] text = "two" -> 2
                     [] OTHER -> 0

\* str(e) of the failures a run can meet
ErrExtract == "text extraction failed"
ErrNoText == "No extracted text available"
ErrStore == "Failed to store embeddings"

VARIABLES
    is_running,        \* BackgroundProcessor.is_running
    processing_queue,  \* BackgroundProcessor.processing_queue (FIFO)
    current_tasks,     \* BackgroundProcessor.current_tasks: doc id -> task
    loops,             \* _processing_loop tasks: created / waiting in get()
    tasks,             \* the _process_document tasks ever created
    reproc,            \* the reprocess_document call in progress, per doc id
    db,                \* the documents table
    collections,       \* names of the ChromaDB collections that exist
    entries,           \* the rows of those collections
    add_on_existing,   \* what collection.add does with an id that exists
    dropped,           \* doc id -> a job for it was skipped as "already being
                       \* processed" during the run now in progress
    halted,            \* the tasks that were in flight at the last observed
                       \* call of stop()
    call               \* the last call of a VectorService, AIService or
                       \* TextChunker method made on its own: arguments, result

vars == <<is_running, processing_queue, current_tasks, loops, tasks, reproc,
          db, collections, entries, add_on_existing, dropped, halted, call>>

\* ---- Document rows -------------------------------------------------------
NewDocument == [status |-> "UPLOADED", extracted_text |-> NULL,
                page_count |-> NULL, is_analyzed |-> FALSE,
                analysis_result |-> NULL, analyzed_at |-> NULL,
                error_message |-> NULL]

\* a reprocess_document call: where it stands, and how many runs had been
\* created when it was made
NoCall == [pc |-> "idle", mark |-> -1]

\* no call has been made
Idle == [op |-> "none"]

NoTaskRec == [doc |-> 0, pc |-> "none", status |-> NULL, text |-> NULL,
              err |-> NULL, mark |-> -1, result |-> ""]

Init ==
    /\ is_running = FALSE
    /\ processing_queue = <<>>
    /\ current_tasks = [d \in DocIds |-> NoTask]
    /\ loops = [created |-> 0, waiting |-> 0]
    /\ tasks = [t \in TaskIds |-> NoTaskRec]
    /\ reproc = [d \in DocIds |-> NoCall]
    /\ db = [d \in Docs |-> NewDocument]
    /\ collections = {}
    /\ entries = {}
    /\ add_on_existing \in {"raise", "ignore"}
    /\ dropped = [d \in DocIds |-> FALSE]
    /\ halted = {}
    /\ call = Idle

\* ---- VectorService ---------------------------------------------------------
\* A row of a collection: its id is "doc_<document_id>_chunk_<chunk_id>", its
\* metadata holds document_id and chunk_id.  run names the pipeline run that
\* wrote the row (the row's created_at).
Entry(p, d, i, run) == [project |-> p, document_id |-> d, chunk_id |-> i,
                        run |-> run]

EntriesOf(es, p, d) == {e \in es : e.project = p /\ e.document_id = d}

\* the chunk ids of the rows a collection holds for ids doc_<d>_chunk_<i>
ExistingIds(es, p, d) == {e.chunk_id : e \in EntriesOf(es, p, d)}

\* Faults of the collaborators behind add_document_embeddings: the collection
\* lookup, the embedding model, the write.
AddFaults == {"none", "collection", "embeddings", "write"}

\* str(e) of the exception that add_document_embeddings catches and logs for
\* each fault
ErrorOf(fault) == CASE fault = "collection" -> "collection lookup failed"
                    [] fault = "embeddings" -> "embedding model failed"
                    [] fault = "write" -> "collection write failed"
                    [] OTHER -> NULL

\* VectorService.add_document_embeddings(project_id, document_id, chunks,
\* metadatas) with n = len(chunks); the value is what it returns and the
\* store it leaves.
add_document_embeddings(cols, es, p, d, n, run, fault) ==
    LET same == [ok |-> FALSE, collections |-> cols, entries |-> es]
        made == [ok |-> FALSE, collections |-> cols \cup {p}, entries |-> es]
        ids == 0..(n - 1)
        old == ExistingIds(es, p, d) \cap ids
    IN  IF n = 0 THEN same
        ELSE IF fault = "collection" THEN same
        ELSE IF fault \in {"embeddings", "write"} THEN made
        ELSE IF old # {} /\ add_on_existing = "raise" THEN made
        ELSE [ok |-> TRUE, collections |-> cols \cup {p},
              entries |-> es \cup {Entry(p, d, i, run) : i \in ids \ old}]

DeleteFaults == {"none", "collection", "delete"}

\* the where clause matched in every collection
delete_document_embeddings_AllProjects(cols, es, p, d, fault) ==
    IF fault = "collection"
    THEN [ok |-> FALSE, collections |-> cols, entries |-> es]
    ELSE IF fault = "delete"
    THEN [ok |-> FALSE, collections |-> cols \cup {p}, entries |-> es]
    ELSE [ok |-> TRUE, collections |-> cols \cup {p},
          entries |-> {e \in es : e.document_id # d}]

\* VectorService.delete_document_embeddings(project_id, document_id)
delete_document_embeddings(cols, es, p, d, fault) ==
    IF fault = "collection"
    THEN [ok |-> FALSE, collections |-> cols, entries |-> es]
    ELSE IF fault = "delete"
    THEN [ok |-> FALSE, collections |-> cols \cup {p}, entries |-> es]
    ELSE [ok |-> TRUE, collections |-> cols \cup {p},
          entries |-> es \ EntriesOf(es, p, d)]

\* VectorService.delete_project_collection(project_id): client.delete_collection
\* raises when there is no collection of that name, or on a fault of the
\* store; the exception is logged and False is returned
delete_project_collection(cols, es, p, fault) ==
    IF p \notin cols \/ fault = "delete"
    THEN [ok |-> FALSE, collections |-> cols, entries |-> es]
    ELSE [ok |-> TRUE, collections |-> cols \ {p},
          entries |-> {e \in es : e.project # p}]

StatsFaults == {"none", "collection", "count"}

\* VectorService.get_collection_stats(project_id): total_chunks, and the
\* collections it leaves
get_collection_stats(cols, es, p, fault) ==
    IF fault = "collection" THEN [total_chunks |-> 0, collections |-> cols]
    ELSE IF fault = "count" THEN [total_chunks |-> 0, collections |-> cols \cup {p}]
    ELSE [total_chunks |-> Cardinality({e \in es : e.project = p}),
          collections |-> cols \cup {p}]

\* ---- BackgroundProcessor: queue and dispatch loop ---------------------------
\* the dict put on the queue; mark is the number of runs created before the
\* reprocess_document call that queued the job, -1 for any other caller
Job(d, mark) == [document_id |-> d, priority |-> 1, mark |-> mark]

RunsCreated == Cardinality({t \in TaskIds : tasks[t].pc # "none"})

\* BackgroundProcessor.queue_document_for_processing
queue_document_for_processing(q, d, mark) == Append(q, Job(d, mark))

\* process_document(document_id): the upload endpoint and any other caller
QueueDocument(d) ==
    /\ Len(processing_queue) < MaxQueue
    /\ processing_queue' = queue_document_for_processing(processing_queue, d, -1)
    /\ UNCHANGED <<is_running, current_tasks, loops, tasks, reproc, db,
                   collections, entries, add_on_existing, dropped, halted, call>>

\* process_document(document_id) with room for max jobs on the queue; the
\* call notes the document ids of the jobs the new job is put behind
QueueDocumentObserved(d, max) ==
    /\ Len(processing_queue) < max
    /\ processing_queue' = queue_document_for_processing(processing_queue, d, -1)
    /\ call' = [op |-> "queue_document_for_processing", document_id |-> d,
                behind |-> {processing_queue[i].document_id :
                              i \in 1..Len(processing_queue)}]
    /\ UNCHANGED <<is_running, current_tasks, loops, tasks, reproc, db,
                   collections, entries, add_on_existing, dropped, halted>>

\* BackgroundProcessor.start, with at most max loop tasks alive in the model
StartWithin(max) ==
    /\ IF is_running
       THEN UNCHANGED <<is_running, loops>>
       ELSE /\ loops.created + loops.waiting < max
            /\ is_running' = TRUE
            /\ loops' = [loops EXCEPT !.created = @ + 1]
    /\ UNCHANGED <<processing_queue, current_tasks, tasks, reproc, db,
                   collections, entries, add_on_existing, dropped, halted, call>>

\* BackgroundProcessor.start
Start ==
    /\ IF is_running
       THEN UNCHANGED <<is_running, loops>>
       ELSE /\ loops.created + loops.waiting < MaxLoops
            /\ is_running' = TRUE
            /\ loops' = [loops EXCEPT !.created = @ + 1]
    /\ UNCHANGED <<processing_queue, current_tasks, tasks, reproc, db,
                   collections, entries, add_on_existing, dropped, halted, call>>

\* BackgroundProcessor.stop
Stop ==
    /\ is_running' = FALSE
    /\ UNCHANGED <<processing_queue, current_tasks, loops, tasks, reproc, db,
                   collections, entries, add_on_existing, dropped, halted, call>>

\* BackgroundProcessor.stop, the tasks in flight at the call noted
StopObserved ==
    /\ is_running
    /\ is_running' = FALSE
    /\ halted' = {t \in TaskIds : tasks[t].pc \notin {"none", "done"}}
    /\ UNCHANGED <<processing_queue, current_tasks, loops, tasks, reproc, db,
                   collections, entries, add_on_existing, dropped, call>>

\* the test gone: the loop goes on to its next wait whatever the flag
LoopAfterPass_Stay(l) == l

\* the loop's "while self.is_running" test, reached after each pass
LoopAfterPass(l) == IF is_running THEN l
                    ELSE [l EXCEPT !.waiting = @ - 1]

\* a created loop task runs for the first time: the while test, then get()
LoopBegin ==
    /\ loops.created > 0
    /\ loops' = IF is_running
                THEN [created |-> loops.created - 1, waiting |-> loops.waiting + 1]
                ELSE [loops EXCEPT !.created = @ - 1]
    /\ UNCHANGED <<is_running, processing_queue, current_tasks, tasks, reproc,
                   db, collections, entries, add_on_existing, dropped, halted, call>>

\* wait_for(get(), 5.0) times out on an empty queue; the loop ends when
\* is_running is false (a timeout while running changes nothing)
LoopTimeout ==
    /\ loops.waiting > 0
    /\ processing_queue = <<>>
    /\ ~is_running
    /\ loops' = LoopAfterPass(loops)
    /\ UNCHANGED <<is_running, processing_queue, current_tasks, tasks, reproc,
                   db, collections, entries, add_on_existing, dropped, halted, call>>

\* the test gone: every job that is got starts a task
AlreadyProcessing_Never(ct, d) == FALSE

\* "if document_id in self.current_tasks"
AlreadyProcessing(ct, d) == ct[d] # NoTask

\* the new task is not recorded
Register_Forget(ct, d, t) == ct

\* "self.current_tasks[document_id] = asyncio.create_task(...)"
Register(ct, d, t) == [ct EXCEPT ![d] = t]

NewTask(job) == [NoTaskRec EXCEPT !.doc = job.document_id, !.pc = "created",
                                  !.mark = job.mark]

\* one pass of _processing_loop that gets a job: skip it, or create its task
Dispatch ==
    /\ loops.waiting > 0
    /\ processing_queue # <<>>
    /\ LET job == Head(processing_queue)
           d == job.document_id
           t == RunsCreated + 1
       IN  /\ processing_queue' = Tail(processing_queue)
           /\ IF AlreadyProcessing(current_tasks, d)
              THEN /\ dropped' = [dropped EXCEPT
                                     ![d] = tasks[current_tasks[d]].pc # "done"]
                   /\ UNCHANGED <<current_tasks, tasks>>
              ELSE /\ t \in TaskIds
                   /\ current_tasks' = Register(current_tasks, d, t)
                   /\ tasks' = [tasks EXCEPT ![t] = NewTask(job)]
                   /\ UNCHANGED dropped
    /\ loops' = LoopAfterPass(loops)
    /\ UNCHANGED <<is_running, reproc, db, collections, entries,
                   add_on_existing, halted, call>>

\* ---- BackgroundProcessor._process_document ---------------------------------
Outcomes == {"ok", "fail"}

\* the exception is swallowed and the run goes on to its next commit
Handler_GoOn(rec, msg) == [rec EXCEPT !.text = "one", !.status = "PROCESSED",
                                      !.err = msg, !.pc = "commit_processed"]

\* "except Exception as e": document.status and error_message are assigned,
\* then the handler awaits its commit
Handler(rec, msg) == [NoTaskRec EXCEPT !.doc = rec.doc, !.status = "ERROR",
                                       !.err = msg, !.pc = "commit_error"]

\* the task is over (its locals are gone); res is "success" when the run
\* reached its last log line, "failure" otherwise
Ended(rec, res) == [NoTaskRec EXCEPT !.doc = rec.doc, !.pc = "done",
                                     !.result = res]

\* "finally: if document_id in self.current_tasks: del ..."
FinallyRemove(ct, d) == [ct EXCEPT ![d] = NoTask]

\* Document.mark_as_analyzed
mark_as_analyzed(rec) == [rec EXCEPT !.status = "ANALYZED"]

\* Steps 4 and 5 of the run and the test of "success": _chunk_text,
\* _store_embeddings, then either the assignment of ANALYZED before the last
\* commit, the end of the run (status already ANALYZED), or the handler.
\* Nothing in it suspends.
ChunkAndStore(rec, t, cols, es, fault) ==
    IF rec.text \in {NULL, ""}
    THEN [task |-> Handler(rec, ErrNoText), collections |-> cols, entries |-> es]
    ELSE LET n == NumChunks(rec.text)
             r == add_document_embeddings(cols, es, ProjectOf(rec.doc), rec.doc,
                                          n, t, fault)
         IN  [task |-> IF ~r.ok THEN Handler(rec, ErrStore)
                       ELSE IF rec.status # "ANALYZED"
                       THEN [rec EXCEPT !.status = "ANALYZED",
                                        !.pc = "commit_analyzed"]
                       ELSE Ended(rec, "success"),
              collections |-> r.collections,
              entries |-> r.entries]

\* the state a block of the run leaves: the row, the task, the store, and
\* current_tasks once the task is over
Leave(t, row, out) ==
    /\ db' = IF tasks[t].doc \in Docs THEN [db EXCEPT ![tasks[t].doc] = row]
             ELSE db
    /\ tasks' = [tasks EXCEPT ![t] = out.task]
    /\ collections' = out.collections
    /\ entries' = out.entries
    /\ current_tasks' = IF out.task.pc = "done"
                        THEN FinallyRemove(current_tasks, tasks[t].doc)
                        ELSE current_tasks
    /\ dropped' = IF out.task.pc = "done"
                  THEN [dropped EXCEPT ![tasks[t].doc] = FALSE]
                  ELSE dropped
    /\ UNCHANGED <<is_running, processing_queue, loops, reproc,
                   add_on_existing, halted, call>>

Only(rec) == [task |-> rec, collections |-> collections, entries |-> entries]

Row(t) == db[tasks[t].doc]

\* The task starts: "async with get_async_session() as db" stands before the
\* try statement, so a failure there ends the task with neither handler nor
\* finally.  get_async_session is an async generator function without the
\* context-manager protocol, so as written the statement raises on every
\* run; the other branch is the body of the function as it is written:
\* _get_document finds no row and the run ends, or PROCESSING is assigned.
BeginRun(t) ==
    /\ tasks[t].pc = "created"
    /\ \E session \in Outcomes :
         IF session = "fail"
         THEN /\ tasks' = [tasks EXCEPT ![t] = Ended(@, "failure")]
              /\ dropped' = [dropped EXCEPT ![tasks[t].doc] = FALSE]
              /\ UNCHANGED <<is_running, processing_queue, current_tasks,
                             loops, reproc, db, collections, entries,
                             add_on_existing, halted, call>>
         ELSE IF tasks[t].doc \notin Docs
         THEN Leave(t, NewDocument, Only(Ended(tasks[t], "failure")))
         ELSE Leave(t, Row(t), Only([tasks[t] EXCEPT !.status = "PROCESSING",
                                                     !.pc = "commit_processing"]))

\* the commit of PROCESSING, then _extract_text and the assignment of
\* extracted_text, page_count and PROCESSED
CommitProcessing(t) ==
    /\ tasks[t].pc = "commit_processing"
    /\ \E commit \in Outcomes, x \in Texts \cup {ErrExtract} :
         IF commit = "fail"
         THEN Leave(t, Row(t), Only(Ended(tasks[t], "failure")))
         ELSE Leave(t, [Row(t) EXCEPT !.status = "PROCESSING"],
                    Only(IF x = ErrExtract
                         THEN Handler(tasks[t], ErrExtract)
                         ELSE [tasks[t] EXCEPT !.text = x,
                                               !.status = "PROCESSED",
                                               !.pc = "commit_processed"]))

\* the commit of the extracted text and PROCESSED, then the call of
\* analyze_document: it raises at once on a short text (the run goes on with
\* chunking), else it suspends
CommitProcessed(t) ==
    /\ tasks[t].pc = "commit_processed"
    /\ \E commit \in Outcomes, fault \in AddFaults :
         IF commit = "fail"
         THEN Leave(t, Row(t), Only(Ended(tasks[t], "failure")))
         ELSE Leave(t, [Row(t) EXCEPT !.extracted_text = tasks[t].text,
                                      !.page_count = "pages",
                                      !.status = "PROCESSED"],
                    IF Analyzable(tasks[t].text)
                    THEN Only([tasks[t] EXCEPT !.pc = "analyze"])
                    ELSE ChunkAndStore(tasks[t], t, collections, entries, fault))

\* analyze_document returns (mark_as_analyzed) or raises (logged, the run
\* goes on with chunking)
Analyze(t) ==
    /\ tasks[t].pc = "analyze"
    /\ \E analysis \in Outcomes, fault \in AddFaults :
         IF analysis = "ok"
         THEN Leave(t, Row(t), Only([mark_as_analyzed(tasks[t])
                                       EXCEPT !.pc = "commit_analysis"]))
         ELSE Leave(t, Row(t),
                    ChunkAndStore(tasks[t], t, collections, entries, fault))

\* the commit after mark_as_analyzed, then chunking and storing
CommitAnalysis(t) ==
    /\ tasks[t].pc = "commit_analysis"
    /\ \E commit \in Outcomes, fault \in AddFaults :
         IF commit = "fail"
         THEN Leave(t, Row(t), Only(Ended(tasks[t], "failure")))
         ELSE Leave(t, [Row(t) EXCEPT !.status = "ANALYZED",
                                      !.is_analyzed = TRUE,
                                      !.analyzed_at = "now",
                                      !.analysis_result = "analysis"],
                    ChunkAndStore(tasks[t], t, collections, entries, fault))

\* the commit of the final ANALYZED and analyzed_at; the run ends
CommitAnalyzed(t) ==
    /\ tasks[t].pc = "commit_analyzed"
    /\ \E commit \in Outcomes :
         IF commit = "fail"
         THEN Leave(t, Row(t), Only(Ended(tasks[t], "failure")))
         ELSE Leave(t, [Row(t) EXCEPT !.status = "ANALYZED",
                                      !.analyzed_at = "now"],
                    Only(Ended(tasks[t], "success")))

\* the handler assigns the status and leaves the message as it was
ErrorRow_StatusOnly(row, msg) == [row EXCEPT !.status = "ERROR"]

\* what the handler's commit writes: status and error_message
ErrorRow(row, msg) == [row EXCEPT !.status = "ERROR", !.error_message = msg]

\* the handler's commit of ERROR and error_message, then finally; when the
\* commit fails its exception leaves the handler and nothing is written
CommitError(t) ==
    /\ tasks[t].pc = "commit_error"
    /\ \E commit \in Outcomes :
         IF commit = "fail"
         THEN Leave(t, Row(t), Only(Ended(tasks[t], "failure")))
         ELSE Leave(t, ErrorRow(Row(t), tasks[t].err),
                    Only(Ended(tasks[t], "failure")))

\* ---- reprocess -------------------------------------------------------------
\* the attributes reprocess_document_endpoint resets before its commit
EndpointReset(row) == [row EXCEPT !.status = "UPLOADED",
                                  !.extracted_text = NULL,
                                  !.page_count = NULL,
                                  !.error_message = NULL,
                                  !.is_analyzed = FALSE,
                                  !.analysis_result = NULL]

\* the attributes BackgroundProcessor.reprocess_document resets
ReprocessReset(row) == [row EXCEPT !.status = "UPLOADED",
                                   !.extracted_text = NULL,
                                   !.page_count = NULL,
                                   !.analyzed_at = NULL,
                                   !.error_message = NULL]

\* reprocess_document starts: "async with get_db() as db" stands before its
\* try statement.  The module never imports or defines get_db, so as written
\* the statement raises NameError on every call; the other branch is the
\* body of the function as it is written.
ReprocessEnter(d, session) ==
    IF session = "ok" THEN [pc |-> "get_document", mark |-> RunsCreated]
    ELSE NoCall

\* POST /{document_id}/reprocess: the row is reset and committed, then
\* reprocess_document is called
ReprocessEndpoint(d) ==
    /\ reproc[d].pc = "idle"
    /\ \E commit \in Outcomes, session \in Outcomes :
         IF commit = "fail"
         THEN UNCHANGED <<db, reproc>>
         ELSE /\ db' = [db EXCEPT ![d] = EndpointReset(@)]
              /\ reproc' = [reproc EXCEPT ![d] = ReprocessEnter(d, session)]
    /\ UNCHANGED <<is_running, processing_queue, current_tasks, loops, tasks,
                   collections, entries, add_on_existing, dropped, halted, call>>

\* reprocess_document(document_id) called by any other caller; for an id
\* without a row the call returns after _get_document and changes nothing
ReprocessCall(d) ==
    /\ reproc[d].pc = "idle"
    /\ \E session \in Outcomes :
         reproc' = [reproc EXCEPT ![d] = IF d \in Docs
                                         THEN ReprocessEnter(d, session)
                                         ELSE NoCall]
    /\ UNCHANGED <<is_running, processing_queue, current_tasks, loops, tasks,
                   db, collections, entries, add_on_existing, dropped, halted, call>>

\* _get_document returns the row: the old embeddings are deleted (the result
\* is not looked at) and the attributes are reset
ReprocessGet(d) ==
    /\ reproc[d].pc = "get_document"
    /\ \E fault \in DeleteFaults :
         LET r == delete_document_embeddings(collections, entries,
                                             ProjectOf(d), d, fault)
         IN  /\ collections' = r.collections
             /\ entries' = r.entries
             /\ reproc' = [reproc EXCEPT ![d].pc = "commit"]
    /\ UNCHANGED <<is_running, processing_queue, current_tasks, loops, tasks,
                   db, add_on_existing, dropped, halted, call>>

\* the commit of the reset, then queue_document_for_processing; a failed
\* commit is logged and nothing is queued
ReprocessCommit(d) ==
    /\ reproc[d].pc = "commit"
    /\ reproc' = [reproc EXCEPT ![d] = NoCall]
    /\ \E commit \in Outcomes :
         IF commit = "fail"
         THEN UNCHANGED <<db, processing_queue>>
         ELSE /\ Len(processing_queue) < MaxQueue
              /\ db' = [db EXCEPT ![d] = ReprocessReset(@)]
              /\ processing_queue' =
                   queue_document_for_processing(processing_queue, d,
                                                 reproc[d].mark)
    /\ UNCHANGED <<is_running, current_tasks, loops, tasks, collections,
                   entries, add_on_existing, dropped, halted, call>>

\* ---- specification ---------------------------------------------------------
Next ==
    \/ Start
    \/ Stop
    \/ LoopBegin
    \/ LoopTimeout
    \/ Dispatch
    \/ \E d \in DocIds : QueueDocument(d)
    \/ \E t \in TaskIds : BeginRun(t)
    \/ \E t \in TaskIds : CommitProcessing(t)
    \/ \E t \in TaskIds : CommitProcessed(t)
    \/ \E t \in TaskIds : Analyze(t)
    \/ \E t \in TaskIds : CommitAnalysis(t)
    \/ \E t \in TaskIds : CommitAnalyzed(t)
    \/ \E t \in TaskIds : CommitError(t)
    \/ \E d \in Docs : ReprocessEndpoint(d)
    \/ \E d \in DocIds : ReprocessCall(d)
    \/ \E d \in Docs : ReprocessGet(d)
    \/ \E d \in Docs : ReprocessCommit(d)

Spec == Init /\ [][Next]_vars

\* The processor with its uploads and no reprocess call, every effective
\* stop() observed
NextStop ==
    \/ Start
    \/ StopObserved
    \/ LoopBegin
    \/ LoopTimeout
    \/ Dispatch
    \/ \E d \in DocIds : QueueDocument(d)
    \/ \E t \in TaskIds : BeginRun(t)
    \/ \E t \in TaskIds : CommitProcessing(t)
    \/ \E t \in TaskIds : CommitProcessed(t)
    \/ \E t \in TaskIds : Analyze(t)
    \/ \E t \in TaskIds : CommitAnalysis(t)
    \/ \E t \in TaskIds : CommitAnalyzed(t)
    \/ \E t \in TaskIds : CommitError(t)

SpecStop == Init /\ [][NextStop]_vars

\* The processor restarted: start() and stop() in any order with one loop
\* task and one place on the queue more than in Spec, uploads, and the runs
NextLoops ==
    \/ StartWithin(MaxLoops + 1)
    \/ Stop
    \/ LoopBegin
    \/ LoopTimeout
    \/ Dispatch
    \/ \E d \in DocIds : QueueDocumentObserved(d, MaxQueue + 1)
    \/ \E t \in TaskIds : BeginRun(t)
    \/ \E t \in TaskIds : CommitProcessing(t)
    \/ \E t \in TaskIds : CommitProcessed(t)
    \/ \E t \in TaskIds : Analyze(t)
    \/ \E t \in TaskIds : CommitAnalysis(t)
    \/ \E t \in TaskIds : CommitAnalyzed(t)
    \/ \E t \in TaskIds : CommitError(t)

SpecLoops == Init /\ [][NextLoops]_vars

\* The processor and its event loop: a loop task that was created is run, a
\* wait on the empty queue times out after its 5 seconds, and get() returns
\* when the queue holds a job.  Jobs are queued as long as the model has a
\* task left for each of them.
NextHalt ==
    \/ Start
    \/ Stop
    \/ LoopBegin
    \/ LoopTimeout
    \/ Dispatch
    \/ \E d \in DocIds : QueueDocumentObserved(d, MaxRuns - RunsCreated)
    \/ \E t \in TaskIds : BeginRun(t)
    \/ \E t \in TaskIds : CommitProcessing(t)
    \/ \E t \in TaskIds : CommitProcessed(t)
    \/ \E t \in TaskIds : Analyze(t)
    \/ \E t \in TaskIds : CommitAnalysis(t)
    \/ \E t \in TaskIds : CommitAnalyzed(t)
    \/ \E t \in TaskIds : CommitError(t)

SpecHalt == /\ Init /\ [][NextHalt]_vars
            /\ WF_vars(LoopBegin) /\ WF_vars(LoopTimeout) /\ WF_vars(Dispatch)

\* ---- retrieval: VectorService.search_similar_chunks, retrieve_context ---------
MaxVecDocs == 2
MaxResults == 2

VDocs == 1..MaxVecDocs
VProjects == 1..MaxVecDocs

\* cosine distances in tenths: 0.5, 1.0, 1.5
Distances == {5, 10, 15}

\* an exception leaves the function / the function returns v
Raised == [raised |-> TRUE, value |-> NULL]
Returned(v) == [raised |-> FALSE, value |-> v]

\* the value search_similar_chunks returns from its except clause
EmptyResults == [documents |-> <<<<>>>>, metadatas |-> <<<<>>>>,
                 distances |-> <<<<>>>>]

\* one collection for every project
InProject_Shared(es, p) == es

\* the rows of the collection "project_<p>"
InProject(es, p) == {e \in es : e.project = p}

\* the document and the metadata the pipeline stores with an entry
ChunkText(e) == "chunk"
Metadata(e) == [document_id |-> e.document_id, chunk_id |-> e.chunk_id,
                project_id |-> e.project]

\* The answers collection.query may give for n_results = k on a collection
\* holding the entries E, whatever the query: m distinct entries, each with
\* its distance from the query, by ascending distance (the entries left out
\* being no nearer), m the smaller of k and the number of entries.
QueryAnswers(E, k) ==
    LET m == IF Cardinality(E) < k THEN Cardinality(E) ELSE k
    IN  {a \in [1..m -> E \X Distances] :
           \A i, j \in 1..m : i < j => /\ a[i][1] # a[j][1]
                                       /\ a[i][2] <= a[j][2]}

\* the dict collection.query returns for the answer a
QueryResults(a) ==
    [documents |-> <<[i \in 1..Len(a) |-> ChunkText(a[i][1])]>>,
     metadatas |-> <<[i \in 1..Len(a) |-> Metadata(a[i][1])]>>,
     distances |-> <<[i \in 1..Len(a) |-> a[i][2]]>>]

SearchFaults == {"none", "collection", "embeddings", "query"}

\* what collection.query does when n_results exceeds the number of entries:
\* it returns the entries there are, or it raises (older ChromaDB)
ShortAnswers == {"fewer", "raise"}

\* the try block of search_similar_chunks: get_or_create_collection,
\* generate_embeddings, collection.query
search_try(cols, es, p, n_results, fault, short, a) ==
    IF fault = "collection"
    THEN [out |-> Raised, collections |-> cols]
    ELSE IF fault \in {"embeddings", "query"}
    THEN [out |-> Raised, collections |-> cols \cup {p}]
    ELSE IF n_results > Cardinality(InProject(es, p)) /\ short = "raise"
    THEN [out |-> Raised, collections |-> cols \cup {p}]
    ELSE [out |-> Returned(QueryResults(a)), collections |-> cols \cup {p}]

\* VectorService.search_similar_chunks: "except Exception" returns the
\* empty dict
search_similar_chunks(cols, es, p, n_results, fault, short, a) ==
    LET r == search_try(cols, es, p, n_results, fault, short, a)
    IN  [results |-> IF r.out.raised THEN EmptyResults ELSE r.out.value,
         collections |-> r.collections]

\* the difference as it is, also below zero
SimilarityScore_Raw(distance) == 10 - distance

\* similarity_score in tenths: 1.0 - distance if distance < 1.0 else 0.0
SimilarityScore(distance) == IF distance < 10 THEN 10 - distance ELSE 0

ChatContextChunk(doc_text, metadata, distance) ==
    [document_id |-> IF "document_id" \in DOMAIN metadata
                     THEN metadata.document_id ELSE 0,
     chunk_text |-> doc_text,
     similarity_score |-> SimilarityScore(distance), metadata |-> metadata]

\* Faults inside retrieve_context after the search: the construction of a
\* ChatContextChunk is refused (pydantic validation)
ConvertFaults == {"none", "convert"}

\* the try block of AIService.retrieve_context on the dict the search gave
retrieve_try(results, fault) ==
    IF results.documents = <<>> THEN Returned(<<>>)
    ELSE LET documents == results.documents[1]
             metadatas == results.metadatas[1]
             distances == results.distances[1]
             items == [i \in 1..Len(documents) |->
                         [doc_text |-> documents[i], metadata |-> metadatas[i],
                          distance |-> distances[i]]]
             kept == SelectSeq(items, LAMBDA x : /\ x.doc_text # ""
                                                 /\ DOMAIN x.metadata # {})
         IN  IF fault = "convert" /\ Len(kept) > 0 THEN Raised
             ELSE Returned([i \in 1..Len(kept) |->
                              ChatContextChunk(kept[i].doc_text, kept[i].metadata,
                                               kept[i].distance)])

\* the exception leaves retrieve_context
retrieve_except_Reraise(r) == r

\* "except Exception as e: ... return []"
retrieve_except(r) == IF r.raised THEN Returned(<<>>) ELSE r

\* AIService.retrieve_context on the dict the search gave
retrieve_context(results, fault) == retrieve_except(retrieve_try(results, fault))

\* the vector store and retrieval on their own: any caller adds, deletes and
\* retrieves, for any project and document
MaxVecChunks == 1
MaxSentences == 3

VAdd(p, d) ==
    \E n \in 0..MaxVecChunks, fault \in AddFaults :
        LET r == add_document_embeddings(collections, entries, p, d, n, 0, fault)
        IN  /\ collections' = r.collections
            /\ entries' = r.entries
            /\ call' = [op |-> "add_document_embeddings", ok |-> r.ok]
            /\ UNCHANGED <<is_running, processing_queue, current_tasks, loops,
                           tasks, reproc, db, add_on_existing, dropped, halted>>

VDelete(p, d) ==
    \E fault \in DeleteFaults :
        LET r == delete_document_embeddings(collections, entries, p, d, fault)
        IN  /\ collections' = r.collections
            /\ entries' = r.entries
            /\ call' = [op |-> "delete_document_embeddings", ok |-> r.ok,
                        project |-> p, document_id |-> d,
                        removed |-> Cardinality(EntriesOf(entries, p, d))]
            /\ UNCHANGED <<is_running, processing_queue, current_tasks, loops,
                           tasks, reproc, db, add_on_existing, dropped, halted>>

\* retrieve_context(project_id, query, max_chunks): the search, then the
\* conversion of its results
VRetrieve(p) ==
    \E k \in 1..MaxResults, sfault \in SearchFaults, short \in ShortAnswers,
       cfault \in ConvertFaults :
        \E a \in QueryAnswers(InProject(entries, p), k) :
            LET sr == search_similar_chunks(collections, entries, p, k, sfault,
                                            short, a)
            IN  /\ collections' = sr.collections
                /\ call' = [op |-> "retrieve_context", project |-> p,
                            max_chunks |-> k,
                            stored |-> Cardinality(InProject(entries, p)),
                            existed |-> p \in collections,
                            search |-> sfault, convert |-> cfault,
                            found |-> sr.results,
                            result |-> retrieve_context(sr.results, cfault)]
                /\ UNCHANGED <<is_running, processing_queue, current_tasks,
                               loops, tasks, reproc, db, entries,
                               add_on_existing, dropped, halted>>

\* get_collection_stats(project_id), called by the chat statistics and by
\* health_check
VStats(p) ==
    \E fault \in StatsFaults :
        LET r == get_collection_stats(collections, entries, p, fault)
        IN  /\ collections' = r.collections
            /\ call' = [op |-> "get_collection_stats", project |-> p,
                        total_chunks |-> r.total_chunks]
            /\ UNCHANGED <<is_running, processing_queue, current_tasks, loops,
                           tasks, reproc, db, entries, add_on_existing, dropped,
                           halted>>

\* delete_project_collection(project_id), by any caller
VDeleteCollection(p) ==
    \E fault \in {"none", "delete"} :
        LET r == delete_project_collection(collections, entries, p, fault)
        IN  /\ collections' = r.collections
            /\ entries' = r.entries
            /\ call' = [op |-> "delete_project_collection", project |-> p,
                        ok |-> r.ok,
                        stored |-> Cardinality(InProject(entries, p))]
            /\ UNCHANGED <<is_running, processing_queue, current_tasks, loops,
                           tasks, reproc, db, add_on_existing, dropped, halted>>

\* DELETE /projects/{project_id}: 404 when the user owns no such project,
\* else the row is deleted and committed; the function makes no call of the
\* vector service
delete_project(cols, es, p, found, commit) ==
    [status |-> IF ~found THEN 404 ELSE IF commit = "ok" THEN 200 ELSE 500,
     collections |-> cols, entries |-> es]

DeleteProject(p) ==
    \E found \in BOOLEAN, commit \in Outcomes :
        LET r == delete_project(collections, entries, p, found, commit)
        IN  /\ collections' = r.collections
            /\ entries' = r.entries
            /\ call' = [op |-> "delete_project", project |-> p,
                        status |-> r.status,
                        stored |-> Cardinality(InProject(entries, p))]
            /\ UNCHANGED <<is_running, processing_queue, current_tasks, loops,
                           tasks, reproc, db, add_on_existing, dropped, halted>>

NextVector ==
    \/ \E p \in VProjects, d \in VDocs : VAdd(p, d)
    \/ \E p \in VProjects, d \in VDocs : VDelete(p, d)
    \/ \E p \in VProjects : VRetrieve(p)
    \/ \E p \in VProjects : VStats(p)
    \/ \E p \in VProjects : VDeleteCollection(p)
    \/ \E p \in VProjects : DeleteProject(p)

SpecVector == Init /\ [][NextVector]_vars

\* ---- text segmentation: TextChunker (text_chunker.py) --------------------------
\* A text is a sequence of one-character strings, so len(), slicing, strip()
\* and the regular expressions of the source act on characters as they do in
\* Python.  The sizes are the defaults of the singleton text_chunker.
chunk_size == 1000
overlap_size == 200
min_chunk_size == 100
max_chunk_size == 2000

Whitespace == {" ", "\n", "\t"}
SentenceEnd == {".", "!", "?"}
Digits == {"7"}

\* str.strip()
strip(s) ==
    IF \A i \in 1..Len(s) : s[i] \in Whitespace THEN <<>>
    ELSE LET first == CHOOSE i \in 1..Len(s) :
                        s[i] \notin Whitespace /\ \A j \in 1..(i - 1) : s[j] \in Whitespace
             last == CHOOSE i \in 1..Len(s) :
                        s[i] \notin Whitespace /\ \A j \in (i + 1)..Len(s) : s[j] \in Whitespace
         IN SubSeq(s, first, last)

\* re.sub and re.split are modelled by marking characters: a substitution maps
\* every character to what replaces it ("" when it is deleted) and keeps the rest.
NotDeleted(c) == c # ""

\* re.sub(r'\s+', ' ', text)
collapse_whitespace(s) ==
    SelectSeq([i \in 1..Len(s) |->
                  IF s[i] \notin Whitespace THEN s[i]
                  ELSE IF i > 1 /\ s[i - 1] \in Whitespace THEN "" ELSE " "],
              NotDeleted)

\* position k lies in a match of r'\n\s*\n': from the first to the last line
\* break of a run of whitespace that holds at least two line breaks
InBlankLine(s, k) ==
    /\ s[k] \in Whitespace
    /\ \E a \in 1..k :
         /\ s[a] = "\n"
         /\ \E b \in k..Len(s) :
              /\ s[b] = "\n"
              /\ a < b
              /\ \A j \in a..b : s[j] \in Whitespace

\* re.sub(r'\n\s*\n', '\n\n', text)
normalize_line_breaks(s) ==
    IF \A i \in 1..Len(s) : s[i] # "\n" THEN s
    ELSE SelectSeq([i \in 1..Len(s) |->
                      IF ~InBlankLine(s, i) THEN s[i]
                      ELSE IF i = 1 \/ i = Len(s) THEN "\n"
                      ELSE IF ~InBlankLine(s, i - 1) \/ ~InBlankLine(s, i + 1) THEN "\n"
                      ELSE ""],
                   NotDeleted)

\* position k lies in a match of r'^\d+\s*$' with re.MULTILINE: digits from the
\* start of a line, then whitespace up to the end of the text or of a line
InLoneNumber(s, k) ==
    \E a \in 1..k :
      /\ s[a] \in Digits
      /\ (a = 1 \/ s[a - 1] = "\n")
      /\ \E d \in a..Len(s) :
           /\ \A j \in a..d : s[j] \in Digits
           /\ (d = Len(s) \/ s[d + 1] \notin Digits)
           /\ \E e \in d..Len(s) :
                /\ k <= e
                /\ \A j \in (d + 1)..e : s[j] \in Whitespace
                /\ (e = Len(s) \/ s[e + 1] = "\n")

\* re.sub(r'^\d+\s*$', '', text, flags=re.MULTILINE)
remove_page_numbers(s) ==
    IF \A i \in 1..Len(s) : s[i] \notin Digits THEN s
    ELSE SelectSeq([i \in 1..Len(s) |-> IF InLoneNumber(s, i) THEN "" ELSE s[i]], NotDeleted)

\* re.sub(r'[.]{3,}', '...', text): the fourth and later dots of a run go
limit_dots(s) ==
    SelectSeq([i \in 1..Len(s) |->
                  IF i > 3 /\ s[i] = "." /\ s[i - 1] = "." /\ s[i - 2] = "." /\ s[i - 3] = "."
                  THEN "" ELSE s[i]],
              NotDeleted)

_preprocess_text(text) ==
    strip(limit_dots(remove_page_numbers(normalize_line_breaks(collapse_whitespace(text)))))

\* re.split: the pieces between the marked separators, in order.  The empty
\* pieces re.split also returns are left out; both callers discard them.
RECURSIVE pieces_from(_, _, _)
pieces_from(s, mask, starts) ==
    IF starts = {} THEN <<>>
    ELSE LET a == CHOOSE x \in starts : \A y \in starts : x <= y
             e == CHOOSE x \in a..Len(s) :
                     (x = Len(s) \/ mask[x + 1]) /\ \A j \in (a + 1)..x : ~mask[j]
         IN <<SubSeq(s, a, e)>> \o pieces_from(s, mask, starts \ {a})

split(s, mask) ==
    pieces_from(s, mask, {i \in 1..Len(s) : ~mask[i] /\ (i = 1 \/ mask[i - 1])})

LongParagraph(para) == para # <<>> /\ Len(para) > 20

_split_into_paragraphs(text) ==
    LET paragraphs == IF \A i \in 1..Len(text) : text[i] # "\n"
                      THEN IF text = <<>> THEN <<>> ELSE <<text>>
                      ELSE split(text, [k \in 1..Len(text) |-> InBlankLine(text, k)])
    IN SelectSeq([i \in 1..Len(paragraphs) |-> strip(paragraphs[i])], LongParagraph)

\* position k lies in a match of r'[.!?]+\s+'
InSentenceBreak(s, k) ==
    \/ /\ s[k] \in SentenceEnd
       /\ \E j \in (k + 1)..Len(s) :
            s[j] \in Whitespace /\ \A m \in k..(j - 1) : s[m] \in SentenceEnd
    \/ /\ s[k] \in Whitespace
       /\ \E j \in 1..(k - 1) :
            s[j] \in SentenceEnd /\ \A m \in (j + 1)..k : s[m] \in Whitespace

LongSentence(sentence) == sentence # <<>> /\ Len(sentence) > 10

_split_into_sentences(text) ==
    LET sentences == split(text, [k \in 1..Len(text) |-> InSentenceBreak(text, k)])
    IN SelectSeq([i \in 1..Len(sentences) |-> strip(sentences[i])], LongSentence)

\* a TextChunk: its text and the paragraph_index written into its metadata
TextChunk(text, paragraph_index) == [text |-> text, paragraph_index |-> paragraph_index]

\* len(text.strip()) < self.min_chunk_size, the test of lines 96, 238 and 320
TooShort_Never(text) == FALSE

TooShort(text) == Len(strip(text)) < min_chunk_size

\* the loop over the sentences of a long paragraph and the final chunk after it
RECURSIVE accumulate(_, _, _, _)
accumulate(sentences, i, current_chunk, chunks) ==
    IF i > Len(sentences)
    THEN IF current_chunk # <<>> /\ ~TooShort(current_chunk)
         THEN Append(chunks, TextChunk(strip(current_chunk), Len(chunks)))
         ELSE chunks
    ELSE IF Len(current_chunk) + Len(sentences[i]) > chunk_size /\ current_chunk # <<>>
         THEN accumulate(sentences, i + 1, sentences[i],
                         Append(chunks, TextChunk(strip(current_chunk), Len(chunks))))
         ELSE accumulate(sentences, i + 1,
                         IF current_chunk # <<>> THEN current_chunk \o <<" ">> \o sentences[i]
                                                 ELSE sentences[i],
                         chunks)

_create_chunks_from_paragraph_Below(paragraph) ==
    IF Len(paragraph) < chunk_size
    THEN <<TextChunk(paragraph, 0)>>
    ELSE accumulate(_split_into_sentences(paragraph), 1, <<>>, <<>>)

_create_chunks_from_paragraph(paragraph) ==
    IF Len(paragraph) <= chunk_size
    THEN <<TextChunk(paragraph, 0)>>
    ELSE accumulate(_split_into_sentences(paragraph), 1, <<>>, <<>>)

_get_overlap_text_Head(text, size) ==
    IF Len(text) <= size THEN text ELSE SubSeq(text, 1, size)

_get_overlap_text(text, size) ==
    IF Len(text) <= size THEN text
    ELSE LET overlap_text == SubSeq(text, Len(text) - size + 1, Len(text))
             n == Len(overlap_text)
             found == {i \in 1..(n - 1) :
                         overlap_text[i] \in SentenceEnd /\ overlap_text[i + 1] \in Whitespace}
         IN IF found = {} THEN overlap_text
            ELSE LET m == CHOOSE x \in found : \A y \in found : x <= y
                     end == CHOOSE x \in (m + 1)..n :
                               /\ \A j \in (m + 1)..x : overlap_text[j] \in Whitespace
                               /\ (x = n \/ overlap_text[x + 1] \notin Whitespace)
                 IN SubSeq(overlap_text, end + 1, n)

_apply_overlap(chunks) ==
    IF Len(chunks) <= 1 THEN chunks
    ELSE [i \in 1..Len(chunks) |->
            IF i = 1 THEN chunks[i]
            ELSE LET overlap_text == _get_overlap_text(chunks[i - 1].text, overlap_size)
                 IN IF overlap_text # <<>>
                    THEN [chunks[i] EXCEPT !.text = overlap_text \o <<" ">> \o @]
                    ELSE chunks[i]]

LongEnough(chunk) == ~TooShort(chunk.text)

\* the validation gone: the chunks are returned as they are after overlap
_validate_and_cleanup_chunks_Keep(chunks) == chunks

_validate_and_cleanup_chunks(chunks) ==
    LET valid_chunks == SelectSeq(chunks, LongEnough)
    IN [i \in 1..Len(valid_chunks) |->
          [valid_chunks[i] EXCEPT !.text =
              strip(IF Len(@) > max_chunk_size THEN SubSeq(@, 1, max_chunk_size) ELSE @)]]

\* the loop of chunk_text over the paragraphs (lines 95-112)
RECURSIVE chunk_paragraphs(_, _)
chunk_paragraphs(paragraphs, i) ==
    IF i > Len(paragraphs) THEN <<>>
    ELSE (IF TooShort(paragraphs[i]) THEN <<>>
          ELSE _create_chunks_from_paragraph(paragraphs[i]))
         \o chunk_paragraphs(paragraphs, i + 1)

\* the chunks before overlap and validation
created_chunks(text) == chunk_paragraphs(_split_into_paragraphs(_preprocess_text(text)), 1)

\* No step of the try block raises on a string, so the handler of lines
\* 123-125, which returns [], is never entered.
chunk_text(text) == _validate_and_cleanup_chunks(_apply_overlap(created_chunks(text)))

\* ---- the texts given to chunk_text ------------------------------------------
Repeat(c, n) == [i \in 1..n |-> c]

SentenceLengths == {12, 100, 498, 500, 1500}
Letters == <<"a", "b", "c", "d", "e", "f">>
Separators == {<<".", " ">>, <<" ">>, <<"\n", "\n">>}

RECURSIVE Composed(_)
Composed(n) ==
    IF n = 1 THEN {Repeat(Letters[1], l) : l \in SentenceLengths}
    ELSE {t \o sep \o Repeat(Letters[n], l) :
             t \in Composed(n - 1), sep \in Separators, l \in SentenceLengths}

Introduzione == <<"I", "n", "t", "r", "o", "d", "u", "z", "i", "o", "n", "e", ".", " ">>

\* "Introduzione. " * 5 + "A" * 1500
IntroduzioneText ==
    Introduzione \o Introduzione \o Introduzione \o Introduzione \o Introduzione
        \o Repeat("A", 1500)

InputTexts ==
    UNION {Composed(n) : n \in 1..MaxSentences}
        \cup {<<>>, <<" ", "\n", "\t", " ">>, IntroduzioneText}

CallChunkText(text) ==
    /\ call = Idle
    /\ call' = [op |-> "chunk_text", text |-> text,
                normalized |-> _preprocess_text(text),
                created |-> created_chunks(text),
                result |-> chunk_text(text)]
    /\ UNCHANGED <<is_running, processing_queue, current_tasks, loops, tasks, reproc, db,
                   collections, entries, add_on_existing, dropped, halted>>

NextChunk == \E text \in InputTexts : CallChunkText(text)

SpecChunk == Init /\ [][NextChunk]_vars

\* ---- texts around max_chunk_size ---------------------------------------------
MaxLongPieces == 2

\* lengths below and at min_chunk_size, and just below, at and above
\* max_chunk_size
LongLengths == {12, 99, 100, 1999, 2000, 2100}

RECURSIVE ComposedLong(_)
ComposedLong(n) ==
    IF n = 1 THEN {Repeat(Letters[1], l) : l \in LongLengths}
    ELSE {t \o sep \o Repeat(Letters[n], l) :
             t \in ComposedLong(n - 1), sep \in Separators, l \in LongLengths}

LongTexts == UNION {ComposedLong(n) : n \in 1..MaxLongPieces}

NextChunkLong == \E text \in LongTexts : CallChunkText(text)

SpecChunkLong == Init /\ [][NextChunkLong]_vars

\* ---- chat answers: context chunks and confidence (ai_service.py) -------------
MaxItems == 2
MaxBatch == 6

\* the metadata of a stored chunk, a metadata without document_id, and the
\* absent metadata (None or {})
SampleMetadata == Metadata(Entry(1, 1, 0, 0))
NoMetadata == [k \in {} |-> 0]
ItemMetadatas == {SampleMetadata, [chunk_id |-> 0], NoMetadata}

\* one result of the vector index: its text ("" when there is none), its
\* metadata, its distance
SearchItems == [doc_text : {"chunk", ""}, metadata : ItemMetadatas,
                distance : Distances]

ItemSeqs == UNION {[1..n -> SearchItems] : n \in 0..MaxItems}

\* the dict search_similar_chunks returns for a sequence of results
ResultsOf(items) ==
    [documents |-> <<[i \in 1..Len(items) |-> items[i].doc_text]>>,
     metadatas |-> <<[i \in 1..Len(items) |-> items[i].metadata]>>,
     distances |-> <<[i \in 1..Len(items) |-> items[i].distance]>>]

\* retrieve_context from line 88 on, on the results the search gave
ContextChunks(items) ==
    /\ call = Idle
    /\ \E fault \in ConvertFaults :
         call' = [op |-> "context_chunks", items |-> items, convert |-> fault,
                  result |-> retrieve_context(ResultsOf(items), fault)]
    /\ UNCHANGED <<is_running, processing_queue, current_tasks, loops, tasks,
                   reproc, db, collections, entries, add_on_existing, dropped,
                   halted>>

\* similarity scores in tenths
Scores == {0, 5, 10}

ScoredChunk(s) == [document_id |-> 1, chunk_text |-> "chunk",
                   similarity_score |-> s, metadata |-> SampleMetadata]

Batches == UNION {[1..n -> {ScoredChunk(s) : s \in Scores}] : n \in 0..MaxBatch}

RECURSIVE SumScores(_, _)
SumScores(chunks, i) ==
    IF i > Len(chunks) THEN 0
    ELSE chunks[i].similarity_score + SumScores(chunks, i + 1)

\* the boost grows with the count without limit
chunk_count_boost_Unbounded(n) == n

\* min(len(context_chunks) / 5.0, 1.0), in fifths
chunk_count_boost(n) == IF n < 5 THEN n ELSE 5

\* AIService._calculate_confidence_score; the value is the fraction num/den.
\* With the scores in tenths, avg_similarity is sum/(10n) and the confidence
\* 0.7*sum/(10n) + 0.3*boost/5 = (7*sum + 6*n*boost)/(100n).
_calculate_confidence_score(context_chunks) ==
    IF context_chunks = <<>> THEN [num |-> 0, den |-> 1]
    ELSE LET n == Len(context_chunks)
             num == 7 * SumScores(context_chunks, 1) + 6 * n * chunk_count_boost(n)
             den == 100 * n
         IN  IF num < den THEN [num |-> num, den |-> den]
             ELSE [num |-> den, den |-> den]

ConfidenceScore(batch) ==
    /\ call = Idle
    /\ call' = [op |-> "_calculate_confidence_score", batch |-> batch,
                result |-> _calculate_confidence_score(batch)]
    /\ UNCHANGED <<is_running, processing_queue, current_tasks, loops, tasks,
                   reproc, db, collections, entries, add_on_existing, dropped,
                   halted>>

NextAnswer ==
    \/ \E items \in ItemSeqs : ContextChunks(items)
    \/ \E batch \in Batches : ConfidenceScore(batch)

SpecAnswer == Init /\ [][NextAnswer]_vars

\* ---- bulk processing: BackgroundProcessor.process_project_documents ----------
MaxBulkDocs == 3

BulkDocs == 1..MaxBulkDocs
BulkProjects == {1, 2}

\* the documents table as the call finds it: project and status of each row
DocumentTables == [BulkDocs -> [project_id : BulkProjects, status : DocumentStatus]]

\* select(Document).where(project_id == ..., status.in_([UPLOADED, ERROR]))
SelectedDocuments(table, project_id) ==
    {d \in DOMAIN table : /\ table[d].project_id = project_id
                          /\ table[d].status \in {"UPLOADED", "ERROR"}}

\* result.scalars().all(): the query has no ORDER BY, the rows come in any order
RowOrders(S) ==
    {o \in [1..Cardinality(S) -> S] : \A i, j \in DOMAIN o : i # j => o[i] # o[j]}

\* "for document in documents: await self.queue_document_for_processing(...)"
RECURSIVE QueueAll(_, _, _)
QueueAll(q, documents, i) ==
    IF i > Len(documents) THEN q
    ELSE QueueAll(queue_document_for_processing(q, documents[i], -1), documents, i + 1)

\* process_project_documents(project_id).  "async with get_db() as db" stands
\* before the try statement and the module neither imports nor defines
\* get_db, so as written the statement raises NameError on every call
\* (session = "fail"); the other branch is the body of the function as it is
\* written, where a failure of the query is logged by the except clause.
process_project_documents(q, table, project_id, session, execute, documents) ==
    IF session = "fail" THEN [raised |-> TRUE, queue |-> q]
    ELSE IF execute = "fail" THEN [raised |-> FALSE, queue |-> q]
    ELSE [raised |-> FALSE, queue |-> QueueAll(q, documents, 1)]

ProcessProjectDocuments(project_id) ==
    /\ call = Idle
    /\ \E table \in DocumentTables, session \in Outcomes, execute \in Outcomes :
         \E documents \in RowOrders(SelectedDocuments(table, project_id)) :
            LET r == process_project_documents(processing_queue, table, project_id,
                                               session, execute, documents)
            IN  /\ processing_queue' = r.queue
                /\ call' = [op |-> "process_project_documents",
                            project_id |-> project_id, table |-> table,
                            session |-> session, execute |-> execute,
                            raised |-> r.raised]
    /\ UNCHANGED <<is_running, current_tasks, loops, tasks, reproc, db,
                   collections, entries, add_on_existing, dropped, halted>>

NextBulk == \E project_id \in BulkProjects : ProcessProjectDocuments(project_id)

SpecBulk == Init /\ [][NextBulk]_vars

\* ---- properties --------------------------------------------------------------
Active(t) == tasks[t].pc \notin {"none", "done"}

InFlight(d) == current_tasks[d] # NoTask

Indexed(es, d) == EntriesOf(es, ProjectOf(d), d)

\* the run t passes its vector-index write in this step
StoredNow(t) ==
    /\ tasks[t].pc \in {"commit_processed", "analyze", "commit_analysis"}
    /\ \/ tasks'[t].pc = "commit_analyzed"
       \/ tasks'[t].pc = "done" /\ tasks'[t].result = "success"

\* the run t ends with success in this step
SucceedsNow(t) ==
    /\ tasks[t].pc # "done"
    /\ tasks'[t].pc = "done"
    /\ tasks'[t].result = "success"

\* C1: at any time at most one _process_document run is active for a
\* document id, whatever the interleaving of enqueues, loop passes and runs.
C1_OneActiveRunPerDocument ==
    \A t1, t2 \in TaskIds :
        (Active(t1) /\ Active(t2) /\ tasks[t1].doc = tasks[t2].doc) => t1 = t2

\* a second run of a document is active after an earlier run of it has ended
C1_Witness ==
    \E t1, t2 \in TaskIds :
        /\ tasks[t1].pc = "done" /\ tasks[t1].result = "success"
        /\ tasks[t2].pc = "analyze"
        /\ tasks[t1].doc = tasks[t2].doc

\* C2: a document id is out of current_tasks once its job has ended, on
\* every exit path of the job (so that a later job for it is started): no
\* id in current_tasks names a task that is over.
C2_EndedJobFreesItsSlot ==
    \A d \in DocIds : InFlight(d) => tasks[current_tasks[d]].pc # "done"

\* C3: a job got from the queue while its document id is in current_tasks
\* is dropped: it leaves the queue and is not put back, and neither the
\* document rows, the vector index, the tasks nor current_tasks change.
C3_DuplicateJobDropped ==
    [][(/\ processing_queue # <<>>
        /\ Len(processing_queue') < Len(processing_queue)
        /\ InFlight(Head(processing_queue).document_id))
       => (/\ processing_queue' = Tail(processing_queue)
           /\ UNCHANGED <<db, collections, entries, tasks, current_tasks>>)]_vars

\* a job for a document has been dropped while the run of that document is
\* suspended in its analysis, and the queue is empty again
C3_Witness ==
    \E d \in Docs :
        /\ dropped[d]
        /\ processing_queue = <<>>
        /\ InFlight(d)
        /\ tasks[current_tasks[d]].pc = "analyze"
        /\ db[d].status = "PROCESSED"

\* C4: a document whose status is ANALYZED has an extracted text and at
\* least one vector entry.
C4_AnalyzedHasTextAndEntries ==
    \A d \in Docs :
        db[d].status = "ANALYZED" =>
            /\ db[d].extracted_text # NULL
            /\ Indexed(entries, d) # {}

\* C5: a document whose status is ERROR has an error message.
C5_ErrorHasMessage ==
    \A d \in Docs : db[d].status = "ERROR" => db[d].error_message # NULL

\* a run has failed and left its document in ERROR
C5_Witness ==
    \E t \in TaskIds :
        /\ tasks[t].pc = "done" /\ tasks[t].result = "failure"
        /\ tasks[t].doc \in Docs
        /\ db[tasks[t].doc].status = "ERROR"
        /\ db[tasks[t].doc].error_message = ErrStore

\* C6: when a run ends with success, its document is ANALYZED and the
\* index holds as many entries for the document as the run had chunks.
C6_SuccessIndexesTheRunsChunks ==
    [][\A t \in TaskIds :
         SucceedsNow(t) =>
            /\ db'[tasks[t].doc].status = "ANALYZED"
            /\ Cardinality(Indexed(entries', tasks[t].doc))
                 = NumChunks(tasks[t].text)]_vars

\* C7: add_document_embeddings called twice for the same project and
\* document with the same chunks succeeds both times, and afterwards each
\* key doc_<d>_chunk_<i> holds the entry the second call wrote.
C7_AddTwiceOverwrites ==
    \A d \in Docs, n \in 1..2 :
        LET p == ProjectOf(d)
            first == add_document_embeddings(collections, entries, p, d, n,
                                             MaxRuns + 1, "none")
            second == add_document_embeddings(first.collections, first.entries,
                                              p, d, n, MaxRuns + 2, "none")
        IN  /\ first.ok
            /\ second.ok
            /\ \A i \in 0..(n - 1) :
                 {e \in Indexed(second.entries, d) : e.chunk_id = i}
                   = {Entry(p, d, i, MaxRuns + 2)}

\* C8: once the run of a job that reprocess_document queued has written its
\* entries, the index holds no entry of the document written by a run that
\* was created before that reprocess_document call.
C8_NoStaleEntriesAfterReprocess ==
    [][\A t \in TaskIds :
         (StoredNow(t) /\ tasks[t].mark >= 0) =>
            \A e \in Indexed(entries', tasks[t].doc) : e.run > tasks[t].mark]_vars

\* C9: a run sets PROCESSING only on a document that is UPLOADED or ERROR.
C9_ProcessingOnlyFromUploadedOrError ==
    [][\A d \in Docs :
         (db[d].status # "PROCESSING" /\ db'[d].status = "PROCESSING")
            => db[d].status \in {"UPLOADED", "ERROR"}]_vars

\* C10: a run assigns ERROR to its document only while the status it has
\* assigned is PROCESSING or PROCESSED, never after ANALYZED.
C10_ErrorOnlyBeforeAnalyzed ==
    [][\A t \in TaskIds :
         (tasks[t].status # "ERROR" /\ tasks'[t].status = "ERROR")
            => tasks[t].status \in {"PROCESSING", "PROCESSED"}]_vars

\* C11: a run whose analysis failed while extraction, chunking and indexing
\* succeeded ends with its document ANALYZED and the analysis result null.
\* (Only a run whose analysis failed reaches the last commit of ANALYZED.)
C11_AnalysisFailureEndsAnalyzedNull ==
    [][\A t \in TaskIds :
         (tasks[t].pc = "commit_analyzed" /\ SucceedsNow(t)) =>
            /\ db'[tasks[t].doc].status = "ANALYZED"
            /\ db'[tasks[t].doc].analysis_result = NULL]_vars

C13_ZeroChunksNoIndexableContent ==
    [][\A t \in TaskIds :
         (/\ tasks[t].pc = "commit_processed"
          /\ NumChunks(tasks[t].text) = 0
          /\ tasks'[t].pc = "commit_error")
            => /\ tasks'[t].err = "no indexable content"
               /\ entries' = entries]_vars

\* C14: when the embedding model or the collection write fails inside
\* add_document_embeddings for a run that is about to store, the run enters
\* its handler with that failure's message.
C14_IndexFailureMessageSurfaces ==
    \A t \in TaskIds :
        tasks[t].pc \in {"analyze", "commit_analysis"} =>
            \A fault \in {"embeddings", "write"} :
                LET r == ChunkAndStore(tasks[t], t, collections, entries, fault)
                IN  /\ r.task.pc = "commit_error"
                    /\ r.task.err = ErrorOf(fault)

\* C20: a run that was in flight when stop() was called ends with its
\* document ANALYZED or ERROR and its id out of current_tasks.
C20_StoppedProcessorFinishesJobs ==
    [][\A t \in halted :
         (/\ Active(t) /\ tasks[t].doc \in Docs
          /\ tasks'[t].pc = "done")
            => /\ db'[tasks[t].doc].status \in {"ANALYZED", "ERROR"}
               /\ current_tasks'[tasks[t].doc] = NoTask]_vars

\* C15: retrieve_context never raises, and it returns the empty list for a
\* project whose collection is empty or was created by the call, and
\* whenever the query or the query embedding (or the collection lookup)
\* fails.
C15_RetrieveContextNeverRaises ==
    call.op = "retrieve_context" =>
        /\ ~call.result.raised
        /\ (call.stored = 0 \/ ~call.existed \/ call.search # "none")
              => call.result.value = <<>>

\* a retrieval on a project that holds entries met a failure of the query
\* embedding and returned the empty list
C15_Witness ==
    /\ call.op = "retrieve_context"
    /\ call.stored > 0
    /\ call.search = "embeddings"
    /\ ~call.result.raised
    /\ call.result.value = <<>>

\* C16: chunk_text on a text shorter than min_chunk_size, the empty and the
\* whitespace-only text included, returns the empty chunk sequence (and so
\* returns a value rather than raising).
C16_ShortTextNoChunks ==
    (call.op = "chunk_text" /\ Len(call.text) < min_chunk_size) => call.result = <<>>

\* a text of more than 20 characters, so one that passes the paragraph filter,
\* and shorter than min_chunk_size has been segmented
C16_Witness ==
    /\ call.op = "chunk_text"
    /\ Len(call.text) < min_chunk_size
    /\ Len(call.normalized) > 20
    /\ call.result = <<>>

\* C17: when the normalized text has exactly chunk_size characters, chunk_text
\* returns exactly one chunk and its text is the whole normalized text.
C17_ExactChunkSizeOneChunk ==
    (call.op = "chunk_text" /\ Len(call.normalized) = chunk_size)
        => (Len(call.result) = 1 /\ call.result[1].text = call.normalized)

\* a normalized text of exactly chunk_size characters that holds a sentence
\* break has been segmented into one chunk
C17_Witness ==
    /\ call.op = "chunk_text"
    /\ Len(call.normalized) = chunk_size
    /\ \E i \in 1..Len(call.normalized) : InSentenceBreak(call.normalized, i)
    /\ Len(call.result) = 1

\* C18: for consecutive returned chunks c[i-1], c[i], when the text c[i-1] had
\* before overlap was applied has at least overlap_size characters, the text
\* of c[i] starts with a non-empty suffix of that text.
C18_OverlapIsSuffixOfPrevious ==
    call.op = "chunk_text" =>
        \A i \in 2..Len(call.result) :
            LET original == call.created[call.result[i - 1].paragraph_index + 1].text
                current == call.result[i].text
            IN Len(original) >= overlap_size =>
                 \E k \in 1..Len(original) :
                    /\ k <= Len(current)
                    /\ \A j \in 1..k : current[j] = original[Len(original) - k + j]

\* two chunks were returned, the first longer than overlap_size before overlap,
\* and the second starts with overlap_size characters that are not its own
C18_Witness ==
    /\ call.op = "chunk_text"
    /\ Len(call.result) >= 2
    /\ Len(call.created[call.result[1].paragraph_index + 1].text) > overlap_size
    /\ call.result[2].text[overlap_size + 1] = " "
    /\ call.result[2].text[1] # call.result[2].text[overlap_size + 2]

\* C19: chunk_text on "Introduzione. " * 5 + "A" * 1500 returns at least two
\* chunks, and the second begins with the last (at most overlap_size)
\* characters of the text the first was made of.
C19_IntroduzioneTwoChunks ==
    (call.op = "chunk_text" /\ call.text = IntroduzioneText) =>
        /\ Len(call.result) >= 2
        /\ LET source == call.created[call.result[1].paragraph_index + 1].text
               overlap == IF Len(source) <= overlap_size THEN source
                          ELSE SubSeq(source, Len(source) - overlap_size + 1, Len(source))
           IN /\ Len(call.result[2].text) >= Len(overlap)
              /\ SubSeq(call.result[2].text, 1, Len(overlap)) = overlap


\* C21: search_similar_chunks(P, query, n_results) returns at most n_results
\* entries, by ascending distance, each of them a row of P's collection and
\* none a row written for another project.
C21_SearchWithinProject ==
    call.op = "retrieve_context" =>
        LET documents == call.found.documents[1]
            metadatas == call.found.metadatas[1]
            distances == call.found.distances[1]
        IN  /\ Len(documents) <= call.max_chunks
            /\ Len(metadatas) = Len(documents)
            /\ Len(distances) = Len(documents)
            /\ \A i, j \in 1..Len(distances) :
                 i < j => distances[i] <= distances[j]
            /\ \A i \in 1..Len(metadatas) :
                 /\ metadatas[i].project_id = call.project
                 /\ \E e \in entries : /\ e.project = call.project
                                       /\ Metadata(e) = metadatas[i]

\* a search that returned an entry while its project held more entries than
\* were asked for and another project held entries too
C21_Witness ==
    /\ call.op = "retrieve_context"
    /\ Len(call.found.documents[1]) = call.max_chunks
    /\ call.stored > call.max_chunks
    /\ \E e \in entries : e.project # call.project

\* C22: every ContextChunk retrieve_context returns has the similarity score
\* max(0, 1 - distance) of the result it was built from; results with empty
\* text or missing metadata are dropped and nothing is raised; the chunks
\* returned follow the order of the results, and when no conversion is refused
\* they are all the results that have text and metadata.
C22_ContextChunksFromResults ==
    call.op = "context_chunks" =>
        LET items == call.items
            kept == {i \in 1..Len(items) :
                        items[i].doc_text # "" /\ DOMAIN items[i].metadata # {}}
            chunks == call.result.value
        IN  /\ ~call.result.raised
            /\ \E f \in [1..Len(chunks) -> kept] :
                 /\ \A i, j \in 1..Len(chunks) : i < j => f[i] < f[j]
                 /\ call.convert = "none" => {f[j] : j \in 1..Len(chunks)} = kept
                 /\ \A j \in 1..Len(chunks) :
                      /\ chunks[j].chunk_text = items[f[j]].doc_text
                      /\ chunks[j].metadata = items[f[j]].metadata
                      /\ chunks[j].similarity_score =
                           (IF 10 - items[f[j]].distance > 0
                            THEN 10 - items[f[j]].distance ELSE 0)

\* two results were converted: the first has no text and was dropped, the
\* second lies farther than 1.0 and became a chunk of score 0
C22_Witness ==
    /\ call.op = "context_chunks"
    /\ Len(call.items) = 2
    /\ call.items[1].doc_text = ""
    /\ call.items[2].distance > 10
    /\ Len(call.result.value) = 1
    /\ call.result.value[1].similarity_score = 0

\* C23: _calculate_confidence_score returns
\* 0.7 * average(similarity_score) + 0.3 * min(count/5, 1) for a batch of
\* chunks, and its result lies in [0, 1] for every batch, the empty one
\* included.
C23_ConfidenceFormulaAndRange ==
    call.op = "_calculate_confidence_score" =>
        LET n == Len(call.batch)
            sum == SumScores(call.batch, 1)
            least == IF n < 5 THEN n ELSE 5
            r == call.result
        IN  /\ r.den > 0
            /\ 0 <= r.num
            /\ r.num <= r.den
            \* r.num/r.den = 7*sum/(100*n) + 3*least/50
            /\ n > 0 => 50 * 100 * n * r.num = r.den * (50 * 7 * sum + 100 * n * 3 * least)

\* the score of a batch of more than five chunks, all of similarity 1.0
C23_Witness ==
    /\ call.op = "_calculate_confidence_score"
    /\ Len(call.batch) > 5
    /\ \A i \in 1..Len(call.batch) : call.batch[i].similarity_score = 10
    /\ call.result.num = call.result.den

\* C24: process_project_documents(P) puts exactly one job on the queue for
\* every document of project P whose status is UPLOADED or ERROR, and no job
\* for a document in another status or of another project.
C24_BulkEnqueuesUploadedAndError ==
    call.op = "process_project_documents" =>
        \A d \in BulkDocs :
            Cardinality({i \in 1..Len(processing_queue) :
                            processing_queue[i].document_id = d})
                = (IF /\ call.table[d].project_id = call.project_id
                      /\ call.table[d].status \in {"UPLOADED", "ERROR"}
                   THEN 1 ELSE 0)

\* C25: when reprocess_document(d) completes for an existing document d (its
\* reset is committed and its job queued), d is UPLOADED with extracted text,
\* page count, analysis result and analyzed timestamp cleared, and exactly one
\* job for d has been added to the queue.
C25_ReprocessClearsAndQueuesOnce ==
    [][\A d \in Docs :
         (/\ reproc[d].pc = "commit"
          /\ reproc'[d].pc = "idle"
          /\ processing_queue' # processing_queue)
         => /\ db'[d].status = "UPLOADED"
            /\ db'[d].extracted_text = NULL
            /\ db'[d].page_count = NULL
            /\ db'[d].analysis_result = NULL
            /\ db'[d].is_analyzed = FALSE
            /\ db'[d].analyzed_at = NULL
            /\ processing_queue' = Append(processing_queue,
                                          Job(d, reproc[d].mark))]_vars

\* C26: the status of a document becomes ANALYZED only once the vector-index
\* write of the same run has succeeded: a step of a run that persists
\* ANALYZED on a row that was not ANALYZED is the last commit of the run, made
\* after the write, or passes the write with success.
C26_AnalyzedOnlyAfterIndexWrite ==
    [][\A t \in TaskIds :
         (/\ Active(t)
          /\ tasks[t].doc \in Docs
          /\ tasks'[t] # tasks[t]
          /\ db[tasks[t].doc].status # "ANALYZED"
          /\ db'[tasks[t].doc].status = "ANALYZED")
         => (tasks[t].pc = "commit_analyzed" \/ StoredNow(t))]_vars

\* C27: whatever the sequence of start() and stop() calls, at most one
\* _processing_loop is inside its while loop at any time.
C27_AtMostOneDispatchLoop == loops.waiting <= 1

\* C28: a job for document B put on the queue behind a job for another
\* document A runs to ANALYZED or ERROR while A's run is suspended and does
\* not finish: when B's run ends with A's run, created before it, still
\* suspended, B is ANALYZED or ERROR.
C28_JobBehindSuspendedRunCompletes ==
    [][\A a, b \in TaskIds :
         (/\ a < b
          /\ tasks[b].doc \in Docs
          /\ call.op = "queue_document_for_processing"
          /\ call.document_id = tasks[b].doc
          /\ tasks[a].doc \in call.behind
          /\ tasks[a].doc # tasks[b].doc
          /\ Active(a)
          /\ tasks'[a] = tasks[a]
          /\ Active(b)
          /\ tasks'[b].pc = "done")
         => db'[tasks[b].doc].status \in {"ANALYZED", "ERROR"}]_vars

\* C29: a run started for an existing document ends with the document
\* ANALYZED or ERROR: the step that ends the run never leaves the row in
\* UPLOADED, PROCESSING or PROCESSED, whatever stage or commit failed.
C29_RunEndsAnalyzedOrError ==
    [][\A t \in TaskIds :
         (/\ Active(t) /\ tasks[t].doc \in Docs
          /\ tasks'[t].pc = "done")
            => db'[tasks[t].doc].status \in {"ANALYZED", "ERROR"}]_vars

\* C30: once the processor is stopped and not started again, the dispatch
\* loop ends: while stopped no loop enters a wait, a loop that gets a job
\* ends with that pass, and in the end no loop task is left.
C30_StoppedLoopTerminates ==
    /\ [][(~is_running /\ ~is_running') =>
            /\ loops'.waiting <= loops.waiting
            /\ Len(processing_queue') < Len(processing_queue)
                  => loops'.waiting < loops.waiting]_vars
    /\ <>[](~is_running) => <>[](loops.waiting = 0 /\ loops.created = 0)

\* the processor is stopped, its loop has started a run and has ended
C30_Witness ==
    /\ ~is_running
    /\ loops.waiting = 0 /\ loops.created = 0
    /\ RunsCreated > 0

\* C31: while a run for document d is in current_tasks and in flight, a step
\* that is not a step of that run changes neither d's row nor d's entries
\* in its project's collection.
C31_InFlightDocumentUntouched ==
    [][\A d \in Docs :
         (/\ current_tasks[d] # NoTask
          /\ Active(current_tasks[d])
          /\ tasks'[current_tasks[d]] = tasks[current_tasks[d]])
            => /\ db'[d] = db[d]
               /\ EntriesOf(entries', ProjectOf(d), d)
                    = EntriesOf(entries, ProjectOf(d), d)]_vars

\* C32: a text made of two paragraphs separated by one blank line, each of
\* a length from min_chunk_size to chunk_size and without whitespace of its
\* own, yields two chunks, the first holding the first paragraph only.
C32_BlankLineSplitsParagraphs ==
    call.op = "chunk_text" =>
        \A k \in 1..Len(call.text) :
            LET first == SubSeq(call.text, 1, k)
                second == SubSeq(call.text, k + 3, Len(call.text))
            IN  (/\ k + 3 <= Len(call.text)
                 /\ call.text[k + 1] = "\n" /\ call.text[k + 2] = "\n"
                 /\ \A j \in 1..Len(call.text) :
                       j \notin {k + 1, k + 2} =>
                          call.text[j] \notin Whitespace \cup SentenceEnd
                 /\ Len(first) >= min_chunk_size /\ Len(first) <= chunk_size
                 /\ Len(second) >= min_chunk_size /\ Len(second) <= chunk_size)
                => /\ Len(call.result) = 2
                   /\ call.result[1].text = first

\* C33: when the sentences of a text hold no whitespace of their own (every
\* whitespace character of the text follows a sentence end) and the
\* normalized text is longer than chunk_size, every chunk created from two
\* or more sentences, that is every created chunk that holds a space, has at
\* most chunk_size characters before overlap.
C33_AccumulatedChunkWithinChunkSize ==
    (/\ call.op = "chunk_text"
     /\ Len(call.normalized) > chunk_size
     /\ \A j \in 1..Len(call.text) :
           call.text[j] \in Whitespace => (j > 1 /\ call.text[j - 1] \in SentenceEnd))
        => \A i \in 1..Len(call.created) :
              (\E j \in 1..Len(call.created[i].text) : call.created[i].text[j] = " ")
                 => Len(call.created[i].text) <= chunk_size

\* C34: every chunk chunk_text returns has at least min_chunk_size and at
\* most max_chunk_size characters.
C34_ReturnedChunkLengthBounds ==
    call.op = "chunk_text" =>
        \A i \in 1..Len(call.result) :
            /\ Len(call.result[i].text) >= min_chunk_size
            /\ Len(call.result[i].text) <= max_chunk_size

\* a call where one chunk was longer than max_chunk_size after overlap and
\* was cut, and another was shorter than min_chunk_size and was left out
C34_Witness ==
    /\ call.op = "chunk_text"
    /\ \E i \in 1..Len(call.created) :
          Len(_apply_overlap(call.created)[i].text) > max_chunk_size
    /\ \E i \in 1..Len(call.created) :
          Len(_apply_overlap(call.created)[i].text) < min_chunk_size
    /\ Len(call.result) = Len(call.created) - 1
    /\ \E i \in 1..Len(call.result) : Len(call.result[i].text) = max_chunk_size

C36_CollectionCreatedOnlyByWrite ==
    [][/\ call'.op # "add_document_embeddings" => collections' \subseteq collections
       /\ call'.op # "delete_project_collection" => collections \subseteq collections']_vars

\* C37: after DELETE /projects/{P} has deleted the project, P has no
\* collection and no vector entry.
C37_ProjectDeleteDropsCollection ==
    (call.op = "delete_project" /\ call.status = 200) =>
        /\ call.project \notin collections
        /\ InProject(entries, call.project) = {}

\* C38: while the processor is stopped (stop() has returned and start() has
\* not been called since) no run is created.
C38_NoJobStartedWhileStopped ==
    [][(~is_running /\ ~is_running') => RunsCreated' = RunsCreated]_vars

\* C39: a document whose status is ANALYZED has a null error_message.
C39_AnalyzedHasNoErrorMessage ==
    \A d \in Docs : db[d].status = "ANALYZED" => db[d].error_message = NULL

====
